---- MODULE Spec2Model ----
(***************************************************************************)
(* The pack/unpack protocol of the packable crate (primitive codec of      *)
(* packable/src/packable/num.rs, the declarations of the derive tests) and *)
(* the event routing of trace-tools' LogLayer (subscriber/layer/log.rs).   *)
(*                                                                         *)
(* Spec     : one declared type is assembled, packed into a sink and       *)
(*            unpacked from a source.                                      *)
(* LogSpec  : threads deliver events to one LogLayer concurrently.         *)
(***************************************************************************)
EXTENDS Integers, Sequences, FiniteSets, TLC

VARIABLES
    phase,      \* position of the pack/unpack scenario
    ty,         \* the declared type being packed / unpacked
    value,      \* the value handed to pack
    verifyFlag, \* the VERIFY flag handed to the outermost unpack
    packer,     \* the byte sink: [bytes, cap]
    unpacker,   \* the byte source: [bytes, pos]
    packRet,    \* what the last pack returned
    unpackRet,  \* what the last unpack returned
    hist,       \* the nested calls the last pack / unpack made
    before,     \* the sink and the source as they were before the last call
    packs,      \* number of pack calls on the sink that returned Ok
    unpacks,    \* number of unpack calls made on the source
    threads,    \* LogLayer: each thread's position in on_event
    locks,      \* LogLayer: per output target, the thread holding its lock (0: free)
    outputs,    \* LogLayer: per output target, the bytes that reached it
    writes      \* LogLayer: per output target, the write calls made on it

packVars == <<phase, ty, value, verifyFlag, packer, unpacker, packRet, unpackRet,
              hist, before, packs, unpacks>>
logVars  == <<threads, locks, outputs, writes>>
vars     == <<phase, ty, value, verifyFlag, packer, unpacker, packRet, unpackRet,
              hist, before, packs, unpacks,
              threads, locks, outputs, writes>>

-----------------------------------------------------------------------------
(* Bounds of the model.                                                    *)

\* longest byte source drawn at Init
MaxSrcLen == 5
\* largest capacity of the sink drawn at Init
MaxCap == 10
\* pack calls made on one sink
MaxPacks == 2
\* unpack calls made on one source
MaxUnpacks == 3

\* the bytes the drawn sources are made of
SrcBytes == {0, 1, 42, 127}

-----------------------------------------------------------------------------
(* Fixed-width numeric types: impl_packable_for_num!(...)                  *)

Num(name, size, signed, float) ==
    [kind |-> "num", name |-> name, size |-> size, signed |-> signed, float |-> float]

u8  == Num("u8", 1, FALSE, FALSE)
u16 == Num("u16", 2, FALSE, FALSE)
u32 == Num("u32", 4, FALSE, FALSE)
u64 == Num("u64", 8, FALSE, FALSE)
i8  == Num("i8", 1, TRUE, FALSE)
i16 == Num("i16", 2, TRUE, FALSE)
i32 == Num("i32", 4, TRUE, FALSE)
i64 == Num("i64", 8, TRUE, FALSE)
f32 == Num("f32", 4, TRUE, TRUE)
f64 == Num("f64", 8, TRUE, TRUE)

NumTypes == {u8, u16, u32, u64, i8, i16, i32, i64, f32, f64}

\* core::mem::size_of::<Self>()
size_of(t) == t.size

\* A float is its IEEE 754 fields.  f32: mant has 23 bits.  f64: the 52 bit
\* mantissa is mant_hi * 2^31 + mant_lo (mant_hi: 21 bits, mant_lo: 31 bits).
F32(sign, exp, mant) == [sign |-> sign, exp |-> exp, mant |-> mant]
F64(sign, exp, mant_hi, mant_lo) ==
    [sign |-> sign, exp |-> exp, mant_hi |-> mant_hi, mant_lo |-> mant_lo]

RECURSIVE IntToLe(_, _)
\* the n low bytes of the two's complement of v, least significant first
IntToLe(v, n) ==
    IF n = 0 THEN <<>> ELSE <<v % 256>> \o IntToLe(v \div 256, n - 1)

RECURSIVE IntFromLe(_, _)
\* the integer whose little-endian bytes are b; the top byte carries the sign
IntFromLe(b, signed) ==
    IF Len(b) = 1
    THEN (IF signed /\ b[1] >= 128 THEN b[1] - 256 ELSE b[1])
    ELSE IntFromLe(Tail(b), signed) * 256 + b[1]

F32ToLe(f) ==
    << f.mant % 256,
       (f.mant \div 256) % 256,
       (f.mant \div 65536) + (f.exp % 2) * 128,
       (f.exp \div 2) + f.sign * 128 >>

F32FromLe(b) ==
    F32(b[4] \div 128,
        (b[4] % 128) * 2 + (b[3] \div 128),
        (b[3] % 128) * 65536 + b[2] * 256 + b[1])

F64ToLe(f) ==
    << f.mant_lo % 256,
       (f.mant_lo \div 256) % 256,
       (f.mant_lo \div 65536) % 256,
       (f.mant_lo \div 16777216) + (f.mant_hi % 2) * 128,
       (f.mant_hi \div 2) % 256,
       (f.mant_hi \div 512) % 256,
       (f.mant_hi \div 131072) + (f.exp % 16) * 16,
       (f.exp \div 16) + f.sign * 128 >>

F64FromLe(b) ==
    F64(b[8] \div 128,
        (b[8] % 128) * 16 + (b[7] \div 16),
        (b[7] % 16) * 131072 + b[6] * 512 + b[5] * 2 + (b[4] \div 128),
        (b[4] % 128) * 16777216 + b[3] * 65536 + b[2] * 256 + b[1])

\* a faulty variant of to_le_bytes: most significant byte first
to_be_bytes(t, v) ==
    LET le == IF t.float THEN (IF t.size = 4 THEN F32ToLe(v) ELSE F64ToLe(v))
              ELSE IntToLe(v, t.size)
    IN  [i \in 1..Len(le) |-> le[Len(le) + 1 - i]]

\* <$ty>::to_le_bytes
to_le_bytes(t, v) ==
    IF t.float THEN (IF t.size = 4 THEN F32ToLe(v) ELSE F64ToLe(v))
    ELSE IntToLe(v, t.size)

\* a faulty variant of from_le_bytes: every integer is decoded as a signed one
from_le_bytes_signed(t, b) ==
    IF t.float THEN (IF t.size = 4 THEN F32FromLe(b) ELSE F64FromLe(b))
    ELSE IntFromLe(b, TRUE)

\* <$ty>::from_le_bytes
from_le_bytes(t, b) ==
    IF t.float THEN (IF t.size = 4 THEN F32FromLe(b) ELSE F64FromLe(b))
    ELSE IntFromLe(b, t.signed)

\* f32 / f64 NaN: all exponent bits set and a mantissa that is not zero
IsNaN(t, f) ==
    IF t.size = 4 THEN f.exp = 255 /\ f.mant # 0
    ELSE f.exp = 2047 /\ (f.mant_hi # 0 \/ f.mant_lo # 0)

IsZero(t, f) ==
    IF t.size = 4 THEN f.exp = 0 /\ f.mant = 0
    ELSE f.exp = 0 /\ f.mant_hi = 0 /\ f.mant_lo = 0

\* a == b of the type: integer equality, IEEE 754 equality for f32 / f64
NumEq(t, a, b) ==
    IF t.float
    THEN /\ ~IsNaN(t, a)
         /\ ~IsNaN(t, b)
         /\ (a = b \/ (IsZero(t, a) /\ IsZero(t, b)))
    ELSE a = b

\* The values of each type the model draws from.  u8 and i8 are complete.
NumValues(t) ==
    CASE t.name = "u8"  -> 0..255
      [] t.name = "i8"  -> -128..127
      [] t.name = "u16" -> {0, 1, 42, 255, 256, 300, 32768, 65535}
      [] t.name = "i16" -> {0, 1, -1, -5, 42, 300, 32767, -32768}
      [] t.name = "u32" -> {0, 7, 42, 300, 65536, 16777216, 2147483647}
      [] t.name = "i32" -> {0, 1, -1, -5, 42, 300, 2147483647, -2147483647 - 1}
      [] t.name = "u64" -> {0, 42, 256, 298, 65536, 2147483647}
      [] t.name = "i64" -> {0, -1, -5, 42, 2147483647, -2147483647 - 1}
      [] t.name = "f32" -> { F32(0, 0, 0), F32(1, 0, 0), F32(0, 127, 0),
                             F32(1, 129, 2097152), F32(0, 255, 0), F32(1, 255, 0),
                             F32(0, 255, 4194304), F32(1, 255, 1), F32(0, 0, 1),
                             F32(0, 254, 8388607) }
      [] t.name = "f64" -> { F64(0, 0, 0, 0), F64(1, 0, 0, 0), F64(0, 1023, 0, 0),
                             F64(1, 1025, 524288, 0), F64(0, 2047, 0, 0),
                             F64(0, 2047, 1048576, 0), F64(1, 2047, 0, 1),
                             F64(0, 0, 0, 1), F64(0, 2046, 2097151, 2147483647) }

-----------------------------------------------------------------------------
(* Byte sink and byte source (Packer / Unpacker).                          *)

Nil == <<>>

\* Packer::pack_bytes: all of bs is appended, or nothing is and the sink's
\* error is returned
pack_bytes(p, bs) ==
    IF Len(p.bytes) + Len(bs) > p.cap
    THEN [ok |-> FALSE,
          err |-> [e |-> "SinkFull", required |-> Len(bs),
                   had |-> p.cap - Len(p.bytes)],
          packer |-> p]
    ELSE [ok |-> TRUE, err |-> Nil, packer |-> [p EXCEPT !.bytes = @ \o bs]]

\* Unpacker::unpack_bytes: fills a buffer of n bytes and advances, or fails
\* with the source's error when fewer than n bytes are left
unpack_bytes(u, n) ==
    IF Len(u.bytes) - u.pos < n
    THEN [ok |-> FALSE,
          err |-> [e |-> "UnexpectedEOF", required |-> n,
                   had |-> Len(u.bytes) - u.pos],
          bytes |-> Nil, unpacker |-> u]
    ELSE [ok |-> TRUE, err |-> Nil,
          bytes |-> SubSeq(u.bytes, u.pos + 1, u.pos + n),
          unpacker |-> [u EXCEPT !.pos = @ + n]]

-----------------------------------------------------------------------------
(* Primitive codec: impl Packable for $ty.                                 *)

\* a faulty variant of NumPack: the write is issued twice
NumPackTwice(t, v, p) ==
    LET r == pack_bytes(p, to_le_bytes(t, v))
    IN  IF r.ok THEN pack_bytes(r.packer, to_le_bytes(t, v)) ELSE r

\* fn pack: packer.pack_bytes(&self.to_le_bytes())
NumPack(t, v, p) == pack_bytes(p, to_le_bytes(t, v))

\* a faulty variant of NumUnpack: a failed read is swallowed and the zeroed buffer decoded
NumUnpackSwallow(t, VERIFY, u) ==
    LET r == unpack_bytes(u, size_of(t))
    IN  [tag |-> "Ok",
         value |-> from_le_bytes(t, IF r.ok THEN r.bytes
                                    ELSE [i \in 1..size_of(t) |-> 0]),
         err |-> Nil, unpacker |-> r.unpacker]

\* a faulty variant of NumUnpack: the source's failure is returned as a domain error
NumUnpackPackable(t, VERIFY, u) ==
    LET r == unpack_bytes(u, size_of(t))
    IN  IF ~r.ok
        THEN [tag |-> "Packable", value |-> Nil, err |-> r.err,
              unpacker |-> r.unpacker]
        ELSE [tag |-> "Ok", value |-> from_le_bytes(t, r.bytes), err |-> Nil,
              unpacker |-> r.unpacker]

\* a faulty variant of NumUnpack: one byte too many is taken from the source
NumUnpackWide(t, VERIFY, u) ==
    LET r == unpack_bytes(u, size_of(t) + 1)
    IN  IF ~r.ok
        THEN [tag |-> "Unpacker", value |-> Nil, err |-> r.err,
              unpacker |-> r.unpacker]
        ELSE [tag |-> "Ok",
              value |-> from_le_bytes(t, SubSeq(r.bytes, 1, size_of(t))),
              err |-> Nil, unpacker |-> r.unpacker]

\* fn unpack: a buffer of size_of::<Self>() bytes is filled (`?` turns the
\* source's error into UnpackError::Unpacker), then Self::from_le_bytes
NumUnpack(t, VERIFY, u) ==
    LET r == unpack_bytes(u, size_of(t))
    IN  IF ~r.ok
        THEN [tag |-> "Unpacker", value |-> Nil, err |-> r.err,
              unpacker |-> r.unpacker]
        ELSE [tag |-> "Ok", value |-> from_le_bytes(t, r.bytes), err |-> Nil,
              unpacker |-> r.unpacker]

-----------------------------------------------------------------------------
(* Declared composite types.                                               *)

Struct(name, fields, verify_with) ==
    [kind |-> "struct", name |-> name, fields |-> fields,
     verify_with |-> verify_with]

Variant(name, tag, fields) == [name |-> name, tag |-> tag, fields |-> fields]

Enum(name, tag_type, variants) ==
    [kind |-> "enum", name |-> name, tag_type |-> tag_type,
     variants |-> variants]

\* tests/fail/duplicated_tag_enum.rs: both variants are given tag 0
OptI32 == Enum("OptI32", u8, << Variant("None", 0, <<>>),
                                Variant("Some", 0, <<i32>>) >>)

\* the two-variant union with distinct tags: tag 0 no payload, tag 1 an i32
OptI32Distinct == Enum("OptI32Distinct", u8, << Variant("None", 0, <<>>),
                                                Variant("Some", 1, <<i32>>) >>)

\* a union whose tag is two bytes wide
TagU16 == Enum("TagU16", u16, << Variant("A", 1, <<u8>>),
                                 Variant("B", 256, <<>>) >>)

\* the record of an 8-bit byte followed by a 4-byte unsigned integer
Rec == Struct("Rec", <<u8, u32>>, FALSE)

\* tests/fail/invalid_verify_with_struct_type.rs: pub struct Picky(u8),
\* verify_with = verify
Picky == Struct("Picky", <<u8>>, TRUE)

\* a record that nests a verified type between two primitives
Wrap == Struct("Wrap", <<u16, Picky, u8>>, FALSE)

Declared == NumTypes \cup {OptI32, OptI32Distinct, TagU16, Rec, Picky, Wrap}

SmallInts == {-5, 0, 1, 7, 41, 42, 255, 300}

RECURSIVE Values(_, _)
RECURSIVE Tuples(_, _)
\* the values of a declared type the model draws from; fields of a composite
\* draw from SmallInts
Values(t, top) ==
    CASE t.kind = "num" ->
            IF top THEN NumValues(t) ELSE NumValues(t) \cap SmallInts
      [] t.kind = "struct" -> Tuples(t.fields, 1)
      [] t.kind = "enum" ->
            UNION { { [variant |-> i, fields |-> fs] :
                        fs \in Tuples(t.variants[i].fields, 1) } :
                    i \in 1..Len(t.variants) }

Tuples(fields, i) ==
    IF i > Len(fields) THEN {<<>>}
    ELSE { <<x>> \o rest : x \in Values(fields[i], FALSE),
                           rest \in Tuples(fields, i + 1) }

-----------------------------------------------------------------------------
(* The verification hook of tests/fail/invalid_verify_with_struct_type.rs. *)

PickyError(code) == [e |-> "PickyError", code |-> code]

\* a faulty variant of verify: the predicate is applied whatever VERIFY is
verify_always(VERIFY, v) ==
    [evaluated |-> TRUE, ok |-> v = 42,
     err |-> IF v = 42 THEN Nil ELSE PickyError(v % 256)]

\* fn verify<const VERIFY: bool>(&value): `!VERIFY || value == 42`; the
\* predicate value == 42 is evaluated only when VERIFY holds (short circuit);
\* a rejected value gives PickyError(value as u8)
verify(VERIFY, v) ==
    IF ~VERIFY
    THEN [evaluated |-> FALSE, ok |-> TRUE, err |-> Nil]
    ELSE [evaluated |-> TRUE, ok |-> v = 42,
          err |-> IF v = 42 THEN Nil ELSE PickyError(v % 256)]

-----------------------------------------------------------------------------
(* Generated codecs: records and tagged unions.                            *)

Call(op, t, VERIFY) == [op |-> op, ty |-> t.name, verify |-> VERIFY]

UnknownTagError(tag) == [e |-> "UnknownTag", tag |-> tag]

\* the index of the first variant declared with this tag, 0 when there is none
VariantOf(t, tag) ==
    IF \E i \in 1..Len(t.variants) : t.variants[i].tag = tag
    THEN CHOOSE i \in 1..Len(t.variants) :
            /\ t.variants[i].tag = tag
            /\ \A j \in 1..(i - 1) : t.variants[j].tag # tag
    ELSE 0

RECURSIVE Pack(_, _, _)
RECURSIVE PackFields(_, _, _, _)
\* pack of a declared type into st.packer; st.hist records the nested calls
Pack(t, v, st) ==
    LET h == Append(st.hist, Call("pack", t, FALSE))
    IN  CASE t.kind = "num" ->
                LET r == NumPack(t, v, st.packer)
                IN  [ok |-> r.ok, err |-> r.err, packer |-> r.packer, hist |-> h]
          [] t.kind = "struct" ->
                PackFields(t.fields, v, 1, [packer |-> st.packer, hist |-> h])
          [] t.kind = "enum" ->
                LET var == t.variants[v.variant]
                    r == Pack(t.tag_type, var.tag,
                              [packer |-> st.packer, hist |-> h])
                IN  IF ~r.ok THEN r
                    ELSE PackFields(var.fields, v.fields, 1,
                                    [packer |-> r.packer, hist |-> r.hist])

\* the fields from the i-th on, in declared order; the first failure is returned
PackFields(fields, vs, i, st) ==
    IF i > Len(fields)
    THEN [ok |-> TRUE, err |-> Nil, packer |-> st.packer, hist |-> st.hist]
    ELSE LET r == Pack(fields[i], vs[i], st)
         IN  IF ~r.ok THEN r
             ELSE PackFields(fields, vs, i + 1,
                             [packer |-> r.packer, hist |-> r.hist])

RECURSIVE Unpack(_, _, _)
RECURSIVE UnpackFields(_, _, _, _, _)
\* unpack of a declared type from st.unpacker with the flag VERIFY
Unpack(t, VERIFY, st) ==
    LET h == Append(st.hist, Call("unpack", t, VERIFY))
    IN  CASE t.kind = "num" ->
                LET r == NumUnpack(t, VERIFY, st.unpacker)
                IN  [tag |-> r.tag, value |-> r.value, err |-> r.err,
                     unpacker |-> r.unpacker, hist |-> h]
          [] t.kind = "struct" ->
                LET r == UnpackFields(t.fields, 1, VERIFY, <<>>,
                                      [unpacker |-> st.unpacker, hist |-> h])
                IN  IF r.tag # "Ok" \/ ~t.verify_with THEN r
                    ELSE LET c == verify(VERIFY, r.value[1])
                             hv == Append(r.hist, Call("verify_with", t, VERIFY))
                             hp == IF c.evaluated
                                   THEN Append(hv, Call("P", t, VERIFY)) ELSE hv
                         IN  IF c.ok THEN [r EXCEPT !.hist = hp]
                             ELSE [tag |-> "Packable", value |-> Nil,
                                   err |-> c.err, unpacker |-> r.unpacker,
                                   hist |-> hp]
          [] t.kind = "enum" ->
                LET r == Unpack(t.tag_type, VERIFY,
                                [unpacker |-> st.unpacker, hist |-> h])
                    i == VariantOf(t, r.value)
                IN  IF r.tag # "Ok" THEN r
                    ELSE IF i = 0
                    THEN [tag |-> "Packable", value |-> Nil,
                          err |-> UnknownTagError(r.value),
                          unpacker |-> r.unpacker, hist |-> r.hist]
                    ELSE LET f == UnpackFields(t.variants[i].fields, 1, VERIFY,
                                      <<>>,
                                      [unpacker |-> r.unpacker, hist |-> r.hist])
                         IN  IF f.tag # "Ok" THEN f
                             ELSE [f EXCEPT !.value =
                                       [variant |-> i, fields |-> f.value]]

\* the fields from the i-th on, in declared order, each with the same VERIFY;
\* the first failure is returned and the fields decoded so far are dropped
UnpackFields(fields, i, VERIFY, acc, st) ==
    IF i > Len(fields)
    THEN [tag |-> "Ok", value |-> acc, err |-> Nil, unpacker |-> st.unpacker,
          hist |-> st.hist]
    ELSE LET r == Unpack(fields[i], VERIFY, st)
         IN  IF r.tag # "Ok" THEN r
             ELSE UnpackFields(fields, i + 1, VERIFY, Append(acc, r.value),
                               [unpacker |-> r.unpacker, hist |-> r.hist])

\* a faulty variant of TagsDistinct: no check is made
TagsUnchecked(t) == TRUE

\* the check made when a union's codec is assembled: pairwise distinct tags
TagsDistinct(t) ==
    t.kind = "enum" =>
        \A i, j \in 1..Len(t.variants) :
            i # j => t.variants[i].tag # t.variants[j].tag

-----------------------------------------------------------------------------
(* The pack / unpack scenario.                                             *)

\* every byte sequence of at most MaxSrcLen bytes of SrcBytes
Sources == UNION { [1..k -> SrcBytes] : k \in 0..MaxSrcLen }

NoRet == [tag |-> "none", value |-> Nil, err |-> Nil]

\* a type is declared; either a value of it is about to be packed into an
\* empty sink, or a byte source is about to be unpacked as that type
Init ==
    /\ phase = "declared"
    /\ ty \in Declared
    /\ verifyFlag \in BOOLEAN
    /\ \/ /\ value \in Values(ty, TRUE)
          /\ packer \in { [bytes |-> <<>>, cap |-> c] : c \in 0..MaxCap }
          /\ unpacker = [bytes |-> <<>>, pos |-> 0]
       \/ /\ value = CHOOSE v \in Values(ty, TRUE) : TRUE
          /\ packer = [bytes |-> <<>>, cap |-> 0]
          /\ unpacker \in { [bytes |-> s, pos |-> 0] : s \in Sources \ {<<>>} }
    /\ packRet = NoRet
    /\ unpackRet = NoRet
    /\ hist = <<>>
    /\ before = [packer |-> packer, unpacker |-> unpacker]
    /\ packs = 0
    /\ unpacks = 0
    /\ threads = <<>>
    /\ locks = <<>>
    /\ outputs = <<>>
    /\ writes = <<>>

\* the codec of the declared type is assembled, or the declaration is rejected
Derive ==
    /\ phase = "declared"
    /\ phase' = IF TagsDistinct(ty) THEN "ready" ELSE "rejected"
    /\ UNCHANGED <<ty, value, verifyFlag, packer, unpacker, packRet, unpackRet,
                   hist, before, packs, unpacks>>

\* value.pack(&mut packer)
DoPack ==
    /\ phase \in {"ready", "packed"}
    /\ unpacker.bytes = <<>>
    /\ packs < MaxPacks
    /\ packRet.tag # "Packer"
    /\ LET r == Pack(ty, value, [packer |-> packer, hist |-> <<>>])
       IN  /\ packer' = r.packer
           /\ packRet' = [tag |-> IF r.ok THEN "Ok" ELSE "Packer",
                          value |-> Nil, err |-> r.err]
           /\ hist' = r.hist
           /\ packs' = IF r.ok THEN packs + 1 ELSE packs
    /\ before' = [packer |-> packer, unpacker |-> unpacker]
    /\ phase' = "packed"
    /\ UNCHANGED <<ty, value, verifyFlag, unpacker, unpackRet, unpacks>>

\* the bytes the sink holds are handed to a source
LoadSource ==
    /\ phase = "packed"
    /\ unpacker' = [bytes |-> packer.bytes, pos |-> 0]
    /\ phase' = "loaded"
    /\ UNCHANGED <<ty, value, verifyFlag, packer, packRet, unpackRet, hist,
                   before, packs, unpacks>>

\* T::unpack::<_, VERIFY>(&mut unpacker)
DoUnpack ==
    /\ phase \in {"ready", "loaded", "unpacked"}
    /\ unpacks < MaxUnpacks
    /\ LET r == Unpack(ty, verifyFlag, [unpacker |-> unpacker, hist |-> <<>>])
       IN  /\ unpacker' = r.unpacker
           /\ unpackRet' = [tag |-> r.tag, value |-> r.value, err |-> r.err]
           /\ hist' = r.hist
    /\ before' = [packer |-> packer, unpacker |-> unpacker]
    /\ unpacks' = unpacks + 1
    /\ phase' = "unpacked"
    /\ UNCHANGED <<ty, value, verifyFlag, packer, packRet, packs>>

Next ==
    \/ Derive /\ UNCHANGED logVars
    \/ DoPack /\ UNCHANGED logVars
    \/ LoadSource /\ UNCHANGED logVars
    \/ DoUnpack /\ UNCHANGED logVars

Spec == Init /\ [][Next]_vars

-----------------------------------------------------------------------------
(* LogLayer (trace-tools, subscriber/layer/log.rs).                        *)

\* threads delivering events to the layer
Threads == {1, 2}
\* events delivered to the layer in all
MaxEvents == 2

\* tracing levels by verbosity; a filter at level L lets through the levels
\* that are not more verbose than L, OFF lets nothing through
LevelRank(l) ==
    CASE l = "OFF" -> 0
      [] l = "ERROR" -> 1
      [] l = "WARN" -> 2
      [] l = "INFO" -> 3
      [] l = "DEBUG" -> 4
      [] l = "TRACE" -> 5

\* the LoggerConfig the layer is built from
LoggerConfig ==
    [target_width |-> 42, level_width |-> 5,
     outputs |-> <<
        [name |-> "stdout", level_filter |-> "INFO", target_filters |-> {},
         target_exclusions |-> {"db"}, color_enabled |-> TRUE],
        [name |-> "a.log", level_filter |-> "DEBUG", target_filters |-> {"net"},
         target_exclusions |-> {}, color_enabled |-> FALSE],
        [name |-> "b.log", level_filter |-> "WARN", target_filters |-> {},
         target_exclusions |-> {}, color_enabled |-> FALSE] >>]

STDOUT_NAME == "stdout"

\* LogLayer::new, per output: the Targets filter (a default level and a level
\* per named target, the exclusions set last) and the destination
LogTargetOf(output_config) ==
    [filter |->
        [default |-> IF output_config.target_filters = {}
                     THEN output_config.level_filter ELSE "OFF",
         targets |-> [x \in output_config.target_filters
                             \cup output_config.target_exclusions |->
                        IF x \in output_config.target_exclusions THEN "OFF"
                        ELSE output_config.level_filter]],
     dest |-> IF output_config.name = STDOUT_NAME
              THEN [kind |-> "Stdout", color |-> output_config.color_enabled,
                    name |-> STDOUT_NAME]
              ELSE [kind |-> "File", color |-> FALSE,
                    name |-> output_config.name]]

\* LogLayer.make_writers, in configuration order
make_writers ==
    [k \in 1..Len(LoggerConfig.outputs) |-> LogTargetOf(LoggerConfig.outputs[k])]

\* LogLayer.fmt_events
fmt_events ==
    [target_width |-> LoggerConfig.target_width,
     level_width |-> LoggerConfig.level_width]

\* LogTargetMakeWriter::enabled: Filter::enabled of the target's Targets
enabled(make_writer, metadata) ==
    LET f == make_writer.filter
        directive == IF metadata.target \in DOMAIN f.targets
                     THEN f.targets[metadata.target] ELSE f.default
    IN  LevelRank(metadata.level) <= LevelRank(directive)

\* ColorFormat for Level
color(level, color_enabled) ==
    IF ~color_enabled THEN [text |-> level, color |-> "none"]
    ELSE [text |-> level,
          color |-> CASE level = "TRACE" -> "bright_magenta"
                      [] level = "DEBUG" -> "bright_blue"
                      [] level = "INFO" -> "bright_green"
                      [] level = "WARN" -> "bright_yellow"
                      [] level = "ERROR" -> "bright_red"]

\* LogFormatter::format_event: for an event with normalized metadata, the
\* line (time, padded target, padded level, message) and then the newline
\* are appended to the buffer; the level is coloured only for Stdout
format_event(buf, output, event) ==
    IF event.normalized
    THEN LET level == IF output.kind = "File" THEN color(event.level, FALSE)
                      ELSE color(event.level, output.color)
         IN  buf \o << [id |-> event.id, part |-> "line", time |-> "now_utc",
                        target |-> event.target,
                        target_width |-> fmt_events.target_width,
                        level |-> level,
                        level_width |-> fmt_events.level_width,
                        message |-> event.message],
                       [id |-> event.id, part |-> "newline"] >>
    ELSE buf

\* the events delivered: with or without log-normalized metadata
Events ==
    { [normalized |-> TRUE, target |-> "net", level |-> "ERROR", message |-> "m"],
      [normalized |-> TRUE, target |-> "net", level |-> "INFO", message |-> "m"],
      [normalized |-> TRUE, target |-> "db", level |-> "ERROR", message |-> "m"],
      [normalized |-> TRUE, target |-> "db", level |-> "DEBUG", message |-> "m"],
      [normalized |-> FALSE, target |-> "net", level |-> "ERROR", message |-> "m"] }

\* the lock a writer to this target takes: the stdout lock, or the file's Mutex
LockOf(make_writer) == make_writer.dest.name

LockIds == { LockOf(make_writers[k]) : k \in 1..Len(make_writers) }

NoEvent ==
    [id |-> <<0, 0>>, normalized |-> FALSE, target |-> "", level |-> "OFF",
     message |-> ""]

LogInit ==
    /\ threads = [t \in Threads |->
                    [pc |-> "idle", event |-> NoEvent, k |-> 0, buf |-> <<>>,
                     sent |-> 0, wrote |-> <<>>, delivered |-> 0]]
    /\ locks = [l \in LockIds |-> 0]
    /\ outputs = [l \in LockIds |-> <<>>]
    /\ writes = [l \in LockIds |-> <<>>]
    /\ phase = "idle"
    /\ ty = u8
    /\ value = 0
    /\ verifyFlag = FALSE
    /\ packer = [bytes |-> <<>>, cap |-> 0]
    /\ unpacker = [bytes |-> <<>>, pos |-> 0]
    /\ packRet = [tag |-> "none", value |-> <<>>, err |-> <<>>]
    /\ unpackRet = [tag |-> "none", value |-> <<>>, err |-> <<>>]
    /\ hist = <<>>
    /\ before = [packer |-> packer, unpacker |-> unpacker]
    /\ packs = 0
    /\ unpacks = 0

RECURSIVE Delivered(_)
\* the events the threads of T have delivered so far
Delivered(T) ==
    IF T = {} THEN 0
    ELSE LET t == CHOOSE t \in T : TRUE
         IN  threads[t].delivered + Delivered(T \ {t})

\* on_event is entered: without normalized metadata it returns at once,
\* otherwise buf = String::new() and the loop over make_writers starts
OnEvent(t, e) ==
    /\ threads[t].pc = "idle"
    /\ Delivered(Threads) < MaxEvents
    /\ threads' = [threads EXCEPT ![t] =
            [pc |-> IF e.normalized THEN "loop" ELSE "idle",
             event |-> [id |-> <<t, @.delivered + 1>>,
                        normalized |-> e.normalized, target |-> e.target,
                        level |-> e.level, message |-> e.message],
             k |-> 1, buf |-> <<>>, sent |-> 0, wrote |-> <<>>,
             delivered |-> @.delivered + 1]]
    /\ UNCHANGED <<locks, outputs, writes>>

\* for make_writer in &self.make_writers: the next target whose filter
\* enables the event gets a writer; after the last target on_event returns
LoopStep(t) ==
    /\ threads[t].pc = "loop"
    /\ threads' = [threads EXCEPT ![t] =
            IF @.k > Len(make_writers) THEN [@ EXCEPT !.pc = "idle"]
            ELSE IF enabled(make_writers[@.k], @.event)
            THEN [@ EXCEPT !.pc = "make_writer"]
            ELSE [@ EXCEPT !.k = @ + 1]]
    /\ UNCHANGED <<locks, outputs, writes>>

\* a faulty variant of MakeWriter: the writer is made without taking the lock
MakeWriterUnlocked(t) ==
    /\ threads[t].pc = "make_writer"
    /\ threads' = [threads EXCEPT ![t].pc = "format"]
    /\ UNCHANGED <<locks, outputs, writes>>

\* make_writer(): self.stdout.lock() or file.lock(); blocks while another
\* thread holds the lock
MakeWriter(t) ==
    /\ threads[t].pc = "make_writer"
    /\ locks[LockOf(make_writers[threads[t].k])] = 0
    /\ locks' = [locks EXCEPT ![LockOf(make_writers[threads[t].k])] = t]
    /\ threads' = [threads EXCEPT ![t].pc = "format"]
    /\ UNCHANGED <<outputs, writes>>

\* self.fmt_events.format_event(&mut buf, &writer, event): formatting into a
\* String does not fail, so the write follows
FormatEvent(t) ==
    /\ threads[t].pc = "format"
    /\ threads' = [threads EXCEPT ![t] =
            [@ EXCEPT !.buf = format_event(@, make_writers[threads[t].k].dest,
                                           threads[t].event),
                      !.sent = 0, !.pc = "write"]]
    /\ UNCHANGED <<locks, outputs, writes>>

\* io::Write::write(&mut writer, buf.as_bytes()) in progress: the next part
\* of the buffer reaches the target
WriteChunk(t) ==
    /\ threads[t].pc = "write"
    /\ threads[t].sent < Len(threads[t].buf)
    /\ outputs' = [outputs EXCEPT ![LockOf(make_writers[threads[t].k])] =
                        Append(@, threads[t].buf[threads[t].sent + 1])]
    /\ threads' = [threads EXCEPT ![t].sent = @ + 1]
    /\ UNCHANGED <<locks, writes>>

\* the write returns after the target accepted all of the buffer or only a
\* first part of it (write, not write_all); the result is dropped (`let _ =`)
WriteReturn(t) ==
    /\ threads[t].pc = "write"
    /\ threads[t].sent >= 1
    /\ writes' = [writes EXCEPT ![LockOf(make_writers[threads[t].k])] =
                      Append(@, [event |-> threads[t].event,
                                 buf |-> threads[t].buf,
                                 accepted |-> threads[t].sent])]
    /\ threads' = [threads EXCEPT ![t] =
            [@ EXCEPT !.wrote = Append(@, threads[t].k), !.pc = "clear"]]
    /\ UNCHANGED <<locks, outputs>>

\* buf.clear(); the writer goes out of scope, which releases its lock
EndIteration(t) ==
    /\ threads[t].pc = "clear"
    /\ locks' = [locks EXCEPT ![LockOf(make_writers[threads[t].k])] = 0]
    /\ threads' = [threads EXCEPT ![t] =
            [@ EXCEPT !.buf = <<>>, !.k = @ + 1, !.pc = "loop"]]
    /\ UNCHANGED <<outputs, writes>>

LogNext ==
    \/ \E t \in Threads, e \in Events : OnEvent(t, e) /\ UNCHANGED packVars
    \/ \E t \in Threads : LoopStep(t) /\ UNCHANGED packVars
    \/ \E t \in Threads : MakeWriter(t) /\ UNCHANGED packVars
    \/ \E t \in Threads : FormatEvent(t) /\ UNCHANGED packVars
    \/ \E t \in Threads : WriteChunk(t) /\ UNCHANGED packVars
    \/ \E t \in Threads : WriteReturn(t) /\ UNCHANGED packVars
    \/ \E t \in Threads : EndIteration(t) /\ UNCHANGED packVars

LogSpec == LogInit /\ [][LogNext]_vars

-----------------------------------------------------------------------------
(* Vocabulary of the properties.                                           *)

IsNum == ty.kind = "num"

\* bytes of the source not yet read
Remaining(u) == Len(u.bytes) - u.pos

\* byte i (1 is the least significant) of the two's complement of v
LeByte(v, i) ==
    IF i <= 4 THEN (v \div (256 ^ (i - 1))) % 256
    ELSE IF v < 0 THEN 255 ELSE 0

\* the little-endian encoding of v stated from the layout of the type
ExpectedLe(t, v) ==
    IF ~t.float THEN [i \in 1..t.size |-> LeByte(v, i)]
    ELSE IF t.size = 4
    THEN LET low == v.exp * 8388608 + v.mant
         IN  << LeByte(low, 1), LeByte(low, 2), LeByte(low, 3),
                (low \div 16777216) + 128 * v.sign >>
    ELSE LET high == v.exp * 1048576 + (v.mant_hi \div 2)
         IN  << LeByte(v.mant_lo, 1), LeByte(v.mant_lo, 2), LeByte(v.mant_lo, 3),
                (v.mant_lo \div 16777216) + 128 * (v.mant_hi % 2),
                LeByte(high, 1), LeByte(high, 2), LeByte(high, 3),
                (high \div 16777216) + 128 * v.sign >>

\* v is a value of the integer type t
InRange(t, v) ==
    IF t.float THEN TRUE
    ELSE IF t.size < 4
    THEN IF t.signed
         THEN -((256 ^ t.size) \div 2) <= v /\ v < (256 ^ t.size) \div 2
         ELSE 0 <= v /\ v < 256 ^ t.size
    ELSE t.signed \/ v >= 0

\* one value was packed into the empty sink and the source that held exactly
\* the written bytes has been unpacked once
RoundTripped ==
    /\ phase = "unpacked"
    /\ packs = 1
    /\ unpacks = 1
    /\ unpacker.bytes = packer.bytes
    /\ before.unpacker.pos = 0

RECURSIVE Leaves(_)
RECURSIVE LeavesOf(_, _)
\* the primitive types a record is made of, in declared order
Leaves(t) ==
    IF t.kind = "num" THEN <<t>> ELSE LeavesOf(t.fields, 1)

LeavesOf(fields, i) ==
    IF i > Len(fields) THEN <<>>
    ELSE Leaves(fields[i]) \o LeavesOf(fields, i + 1)

RECURSIVE Flat(_, _)
RECURSIVE FlatOf(_, _, _)
\* the primitive values of a record value, in declared order
Flat(t, v) ==
    IF t.kind = "num" THEN <<v>> ELSE FlatOf(t.fields, v, 1)

FlatOf(fields, vs, i) ==
    IF i > Len(fields) THEN <<>>
    ELSE Flat(fields[i], vs[i]) \o FlatOf(fields, vs, i + 1)

RECURSIVE Concat(_, _, _)
\* the encodings of the first n primitives of a record, concatenated
Concat(ls, vs, n) ==
    IF n = 0 THEN <<>>
    ELSE Concat(ls, vs, n - 1) \o ExpectedLe(ls[n], vs[n])

RECURSIVE SizeSum(_, _)
SizeSum(ls, n) == IF n = 0 THEN 0 ELSE SizeSum(ls, n - 1) + ls[n].size

\* the calls of hist that pack or unpack a primitive
LeafCalls ==
    SelectSeq(hist, LAMBDA c : c.op \in {"pack", "unpack"}
                               /\ c.ty \in {t.name : t \in NumTypes})

-----------------------------------------------------------------------------
(* C1 as stated: packing a primitive value into an empty sink and          *)
(* unpacking the written bytes returns a value equal (==) to it, for every *)
(* numeric type and either VERIFY.                                         *)
C1_RoundTripEq ==
    (IsNum /\ RoundTripped) =>
        /\ unpackRet.tag = "Ok"
        /\ NumEq(ty, unpackRet.value, value)

(* C1 amended: the round trip of a primitive returns a value with the same *)
(* bit pattern as the one packed; it is equal (==) to it for every integer *)
(* and every float that is not a NaN.                                      *)
C1_RoundTripBits ==
    (IsNum /\ RoundTripped) =>
        /\ unpackRet.tag = "Ok"
        /\ unpackRet.value = value
        /\ (ty.float /\ IsNaN(ty, value)) \/ NumEq(ty, unpackRet.value, value)

C1_Witness ==
    /\ IsNum /\ RoundTripped
    /\ ty.name = "f32"
    /\ IsNaN(ty, value)
    /\ unpackRet.tag = "Ok"
    /\ unpackRet.value = value

(* C2: pack of a numeric type of N bytes appends exactly the N bytes of    *)
(* the value, least significant first (two's complement for signed types), *)
(* nothing else; unpack takes exactly the next N bytes of the source, moves *)
(* the read position by N and returns the value those bytes encode, so     *)
(* consecutive unpacks read consecutive values.                            *)
C2_ByteExact ==
    /\ (IsNum /\ phase = "packed" /\ packRet.tag = "Ok") =>
          packer.bytes = before.packer.bytes \o ExpectedLe(ty, value)
    /\ (IsNum /\ phase = "unpacked" /\ unpackRet.tag = "Ok") =>
          /\ unpacker.pos = before.unpacker.pos + ty.size
          /\ unpacker.bytes = before.unpacker.bytes
          /\ InRange(ty, unpackRet.value)
          /\ ExpectedLe(ty, unpackRet.value) =
                SubSeq(unpacker.bytes, before.unpacker.pos + 1,
                       before.unpacker.pos + ty.size)

C2_Witness ==
    /\ IsNum /\ phase = "unpacked"
    /\ ty.name = "i16"
    /\ unpacks = 2
    /\ before.unpacker.pos = 2
    /\ unpacker.pos = 4
    /\ unpackRet.tag = "Ok"
    /\ unpackRet.value = -5
    /\ unpacker.bytes = <<251, 255, 251, 255>>

(* C3: unpack of a numeric type returns the value when the source supplies *)
(* all N bytes and otherwise the transport error carrying the source's own *)
(* failure, with no value; it never returns a domain error.  Pack fails    *)
(* exactly when the sink's write fails and returns the sink's error.       *)
C3_NumErrors ==
    /\ (IsNum /\ phase = "unpacked") =>
          /\ unpackRet.tag \in {"Ok", "Unpacker"}
          /\ unpackRet.tag = "Ok" <=> Remaining(before.unpacker) >= ty.size
          /\ unpackRet.tag = "Unpacker" =>
                /\ unpackRet.value = Nil
                /\ unpackRet.err = [e |-> "UnexpectedEOF", required |-> ty.size,
                                    had |-> Remaining(before.unpacker)]
    /\ (IsNum /\ phase = "packed") =>
          /\ packRet.tag \in {"Ok", "Packer"}
          /\ packRet.tag = "Packer" <=>
                Len(before.packer.bytes) + ty.size > before.packer.cap
          /\ packRet.tag = "Packer" =>
                packRet.err = [e |-> "SinkFull", required |-> ty.size,
                               had |-> before.packer.cap
                                       - Len(before.packer.bytes)]

C3_Witness ==
    /\ IsNum /\ phase = "unpacked"
    /\ ty.name = "u32"
    /\ Remaining(before.unpacker) = 3
    /\ unpackRet.tag = "Unpacker"
    /\ unpackRet.value = Nil

(* C4: a union declared with two variants of the same tag (OptI32: None   *)
(* and Some(i32) both with tag 0) is rejected when its codec is assembled: *)
(* no value of it is ever packed or unpacked.                              *)
C4_DuplicateTagRejected ==
    (/\ ty.kind = "enum"
     /\ \E i, j \in 1..Len(ty.variants) :
            i < j /\ ty.variants[i].tag = ty.variants[j].tag)
    => /\ phase \in {"declared", "rejected"}
       /\ packRet = NoRet
       /\ unpackRet = NoRet
       /\ hist = <<>>
       /\ packer.bytes = <<>>
       /\ unpacker.pos = 0

C4_Witness ==
    /\ ty.name = "OptI32"
    /\ ty.variants[1].tag = 0
    /\ ty.variants[2].tag = 0
    /\ phase = "rejected"

\* the unsigned integer with the little-endian bytes b
LeValue(b) ==
    IF Len(b) = 1 THEN b[1] ELSE b[1] + 256 * b[2]

\* the tag bytes at the read position of u, as the union t reads them
TagAt(t, u) == LeValue(SubSeq(u.bytes, u.pos + 1, u.pos + t.tag_type.size))

(* C5: when the discriminant read from the source is the tag of no         *)
(* declared variant, unpack of the union fails with the domain error that  *)
(* carries the value read, returns no variant, reads no payload byte, and  *)
(* does so whatever VERIFY is.                                             *)
C5_UnknownTag ==
    (/\ ty.kind = "enum"
     /\ phase = "unpacked"
     /\ Remaining(before.unpacker) >= ty.tag_type.size
     /\ \A i \in 1..Len(ty.variants) :
            ty.variants[i].tag # TagAt(ty, before.unpacker))
    => /\ unpackRet.tag = "Packable"
       /\ unpackRet.err = [e |-> "UnknownTag", tag |-> TagAt(ty, before.unpacker)]
       /\ unpackRet.value = Nil
       /\ unpacker.pos = before.unpacker.pos + ty.tag_type.size
       /\ hist = << Call("unpack", ty, verifyFlag),
                    Call("unpack", ty.tag_type, verifyFlag) >>

C5_Witness ==
    /\ ty.name = "OptI32Distinct"
    /\ phase = "unpacked"
    /\ ~verifyFlag
    /\ before.unpacker = [bytes |-> <<42, 0, 0, 0, 0>>, pos |-> 0]
    /\ unpackRet.tag = "Packable"
    /\ unpackRet.err.tag = 42
    /\ unpacker.pos = 1

\* the byte at offset k (from 1) of what was left of the source before the call
ByteAt(k) == before.unpacker.bytes[before.unpacker.pos + k]

ExpectedUnion(t, v) ==
    ExpectedLe(t.tag_type, t.variants[v.variant].tag)
        \o Concat(t.variants[v.variant].fields, v.fields,
                  Len(t.variants[v.variant].fields))

(* C7: for a union with pairwise distinct tags, pack writes the variant's  *)
(* declared tag at the tag width and then the payload bytes (none for a    *)
(* variant without payload), and unpacking those bytes with either VERIFY  *)
(* returns the same variant with the same payload; variant 1 of            *)
(* {0: no payload, 1: i32} holding -5 packs to 01 FB FF FF FF.             *)
C7_UnionRoundTrip ==
    ty.kind = "enum" =>
        /\ (phase = "packed" /\ packRet.tag = "Ok") =>
              packer.bytes = before.packer.bytes \o ExpectedUnion(ty, value)
        /\ RoundTripped =>
              unpackRet = [tag |-> "Ok", value |-> value, err |-> Nil]
        /\ (/\ ty.name = "OptI32Distinct"
            /\ value = [variant |-> 2, fields |-> <<-5>>]
            /\ phase = "packed" /\ packRet.tag = "Ok"
            /\ before.packer.bytes = <<>>) =>
              packer.bytes = <<1, 251, 255, 255, 255>>

C7_Witness ==
    /\ ty.name = "OptI32Distinct"
    /\ RoundTripped
    /\ value = [variant |-> 2, fields |-> <<-5>>]
    /\ unpacker.bytes = <<1, 251, 255, 255, 255>>
    /\ unpackRet.tag = "Ok"
    /\ unpackRet.value = [variant |-> 2, fields |-> <<-5>>]

LeafNames == [i \in 1..Len(LeafCalls) |-> LeafCalls[i].ty]

\* the index of the first of the primitives ls that does not fit in room bytes
FirstShort(ls, room) ==
    CHOOSE k \in 1..Len(ls) : SizeSum(ls, k) > room /\ SizeSum(ls, k - 1) <= room

(* C9: when the pack or unpack of field k of a record fails, that error is *)
(* what the record's call returns, no later field is packed or unpacked    *)
(* and field k is not tried again; a failed unpack returns no record, and  *)
(* after a failed pack the bytes of the fields before k are in the sink.   *)
C9_FirstFailureAborts ==
    ty.kind = "struct" =>
      LET ls == Leaves(ty)
          all == SizeSum(ls, Len(ls))
      IN
        /\ phase = "packed" =>
             LET room == before.packer.cap - Len(before.packer.bytes)
             IN  IF all <= room THEN packRet.tag = "Ok"
                 ELSE LET k == FirstShort(ls, room)
                      IN  /\ packRet.tag = "Packer"
                          /\ packRet.err =
                                [e |-> "SinkFull", required |-> ls[k].size,
                                 had |-> room - SizeSum(ls, k - 1)]
                          /\ packer.bytes = before.packer.bytes
                                \o Concat(ls, Flat(ty, value), k - 1)
                          /\ LeafNames = [i \in 1..k |-> ls[i].name]
                          /\ hist[Len(hist)] = Call("pack", ls[k], FALSE)
        /\ phase = "unpacked" =>
             LET rem == Remaining(before.unpacker)
                 n == Len(LeafCalls)
             IN  /\ all > rem => unpackRet.tag # "Ok"
                 /\ unpackRet.tag # "Ok" =>
                      /\ unpackRet.value = Nil
                      /\ n <= Len(ls)
                      /\ LeafNames = [i \in 1..n |-> ls[i].name]
                 /\ unpackRet.tag = "Unpacker" =>
                      /\ n = FirstShort(ls, rem)
                      /\ unpackRet.err =
                            [e |-> "UnexpectedEOF", required |-> ls[n].size,
                             had |-> rem - SizeSum(ls, n - 1)]
                      /\ hist[Len(hist)] = Call("unpack", ls[n], verifyFlag)
                 /\ unpackRet.tag = "Packable" =>
                      /\ hist[Len(hist)].op = "P"
                      /\ unpackRet.err =
                            PickyError(ByteAt(SizeSum(ls, n)))

C9_Witness ==
    /\ ty.name = "Rec"
    /\ phase = "unpacked"
    /\ Remaining(before.unpacker) = 3
    /\ unpackRet.tag = "Unpacker"
    /\ unpackRet.err.required = 4
    /\ unpackRet.value = Nil
    /\ unpacker.pos = before.unpacker.pos + 1
    /\ Len(hist) = 3

\* the indexes of the targets before the k-th whose filter enables the
\* event, in configuration order
RECURSIVE EnabledBefore(_, _)
EnabledBefore(e, k) ==
    IF k <= 1 THEN <<>>
    ELSE IF enabled(make_writers[k - 1], e)
    THEN Append(EnabledBefore(e, k - 1), k - 1)
    ELSE EnabledBefore(e, k - 1)

\* the destination behind a lock
DestOf(l) ==
    make_writers[CHOOSE k \in 1..Len(make_writers) :
                    LockOf(make_writers[k]) = l].dest

RECURSIVE Accepted(_)
\* what the write calls made on a target put there, call after call
Accepted(ws) ==
    IF ws = <<>> THEN <<>>
    ELSE Accepted(SubSeq(ws, 1, Len(ws) - 1))
            \o SubSeq(ws[Len(ws)].buf, 1, ws[Len(ws)].accepted)

\* what the write in progress on a target has put there so far
InProgress(l) ==
    IF \E t \in Threads : /\ threads[t].pc = "write"
                          /\ LockOf(make_writers[threads[t].k]) = l
    THEN LET t == CHOOSE t \in Threads :
                    /\ threads[t].pc = "write"
                    /\ LockOf(make_writers[threads[t].k]) = l
         IN  SubSeq(threads[t].buf, 1, threads[t].sent)
    ELSE <<>>

\* the targets of LoggerConfig that take an event, by its target and level:
\* stdout takes INFO and above but nothing of "db", a.log takes "net" down to
\* DEBUG and nothing else, b.log takes WARN and above
Routed(e) ==
    CASE e.target = "net" /\ e.level = "ERROR" -> <<1, 2, 3>>
      [] e.target = "net" /\ e.level = "INFO" -> <<1, 2>>
      [] e.target = "net" /\ e.level = "DEBUG" -> <<2>>
      [] e.target = "db" /\ e.level = "ERROR" -> <<3>>
      [] e.target = "db" /\ e.level \in {"INFO", "DEBUG"} -> <<>>

(* C10: an event with log-normalized metadata has its formatted line       *)
(* written to exactly the targets whose filter enables it, once each, in   *)
(* configuration order; what is written to a target holds nothing that was *)
(* formatted for an earlier target (the buffer is empty before each        *)
(* format); an event without normalized metadata, or enabled by no target, *)
(* causes no write and takes no lock; a target's lock is held from before  *)
(* the formatting until after the write, so the parts of two events never  *)
(* interleave within one target.                                           *)
C10_EventRouting ==
    /\ \A t \in Threads :
         LET th == threads[t]
             here == th.pc \in {"format", "write", "clear"}
         IN  /\ th.delivered > 0 =>
                  /\ th.wrote =
                        IF ~th.event.normalized THEN <<>>
                        ELSE EnabledBefore(th.event,
                                           IF th.pc = "clear" THEN th.k + 1
                                           ELSE th.k)
                  /\ th.pc = "idle" =>
                        (~th.event.normalized \/ th.k = Len(make_writers) + 1)
                  /\ (th.pc = "idle" /\ th.event.normalized) =>
                        th.wrote = Routed(th.event)
             /\ th.pc \in {"idle", "loop", "make_writer", "format"} =>
                  th.buf = <<>>
             /\ th.pc \in {"write", "clear"} =>
                  /\ Len(th.buf) = 2
                  /\ th.buf = format_event(<<>>, make_writers[th.k].dest, th.event)
                  /\ \A c \in 1..2 : th.buf[c].id = th.event.id
             /\ here =>
                  /\ th.event.normalized
                  /\ enabled(make_writers[th.k], th.event)
                  /\ locks[LockOf(make_writers[th.k])] = t
             /\ \A l \in LockIds :
                  locks[l] = t => (here /\ LockOf(make_writers[th.k]) = l)
    /\ \A l \in LockIds :
         /\ outputs[l] = Accepted(writes[l]) \o InProgress(l)
         /\ \A w \in 1..Len(writes[l]) :
              /\ writes[l][w].event.normalized
              /\ \E k \in 1..Len(make_writers) :
                    /\ LockOf(make_writers[k]) = l
                    /\ enabled(make_writers[k], writes[l][w].event)
              /\ writes[l][w].buf =
                    format_event(<<>>, DestOf(l), writes[l][w].event)
              /\ \A v \in 1..Len(writes[l]) :
                    writes[l][v].event.id = writes[l][w].event.id => v = w

C10_Witness ==
    /\ threads[1].pc = "write"
    /\ threads[1].k = 2
    /\ threads[1].sent = 1
    /\ threads[1].wrote = <<1>>
    /\ locks["a.log"] = 1
    /\ threads[2].pc = "make_writer"
    /\ threads[2].k = 2
    /\ Len(outputs["a.log"]) = 1
    /\ outputs["a.log"][1].id = <<1, 1>>
    /\ outputs["a.log"][1].level.color = "none"
    /\ Len(outputs["stdout"]) = 4
    /\ outputs["stdout"][1].level.color = "bright_red"

====
